---- MODULE Spec2Model ----
(***************************************************************************)
(* docker-regclient: the rate-limited concurrent metadata-fetch pipeline   *)
(* (fetch_images), the per-repository top-N exclusion built on it          *)
(* (fetch_images_older_than_n_latest), the registry calls they use, and    *)
(* the images command around them: flags, listing, Confirm, deletion.      *)
(*                                                                         *)
(* Goroutines are processes: the goroutine that runs fetch_images (its     *)
(* position is pc), one discovery worker per element of the repository     *)
(* list (dw), one fetch worker per tag (fw), the two closer goroutines     *)
(* and the runtime ticker behind time.Tick.  The two channels are          *)
(* unbuffered, so a send and its receive are one step.                     *)
(***************************************************************************)
EXTENDS Integers, Sequences, FiniteSets, TLC

\* ------------------------------------------------------------------ bounds
MaxRepos == 2    \* longest repository list drawn at Init
MaxN     == 2    \* largest --exclude-latest drawn at Init
MaxFail  == 1    \* registry calls that may fail with a transport error per command
MaxTime  == 7    \* last instant of the clock in the timed specification
MaxPrompts == 2  \* answers the operator gives to the confirmation prompt

\* rate := time.Second / 10, in units of 50 ms
Interval == 2

\* ------------------------------------------------------------ tag strings
\* A tag is the sequence of its characters, so that strings.Contains is computed.
TagDev1 == <<"d", "e", "v", "1">>
TagDev2 == <<"d", "e", "v", "2">>
TagDev3 == <<"d", "e", "v", "3">>
TagDev4 == <<"d", "e", "v", "4">>
TagDev5 == <<"d", "e", "v", "5">>
TagRc1  == <<"r", "c", "1">>
TagRc2  == <<"r", "c", "2">>
TagRc3  == <<"r", "c", "3">>
StrDev  == <<"d", "e", "v">>
StrRc   == <<"r", "c">>
Devbuild(c) == <<"d", "e", "v", "b", "u", "i", "l", "d", "-", c>>

\* ---------------------------------------------------------------- registry
\* The registry's content: for each repository the manifests behind its tags, in
\* the order the tag-listing endpoint returns the tags.
\* A manifest also has the shape of the two responses the registry gives for it:
\* "ok", or what is wrong with them.
Malformed(t, c, d, s) == [tag |-> t, created |-> c, digest |-> d, shape |-> s]

Manifest(t, c, d) == Malformed(t, c, d, "ok")

Registry ==
  [r \in {"A", "B", "C", "M", "T", "webserver"} |->
     CASE r = "A" -> << Manifest(TagDev1, 1, 11), Manifest(TagRc1, 4, 12) >>
       [] r = "T" -> << Manifest(TagDev1, 2, 71), Manifest(TagDev2, 9, 72),
                        Manifest(TagDev3, 9, 72) >>
       [] r = "M" -> << Manifest(TagDev1, 6, 61),
                        Malformed(TagDev2, 0, 62, "invalid-json"),
                        Malformed(TagDev3, 0, 63, "bad-time"),
                        Malformed(TagDev4, 0, 64, "no-fields"),
                        Malformed(TagDev5, 7, 0, "no-digest") >>
       [] r = "C" -> << Manifest(TagDev1, 3, 31) >>
       [] r = "B" -> << Manifest(TagDev1, 2, 21), Manifest(TagDev2, 5, 22),
                        Manifest(TagDev3, 7, 23), Manifest(TagDev4, 8, 24),
                        Manifest(TagDev5, 9, 25) >>
       [] r = "webserver" ->
                     << Manifest(Devbuild("1"), 2, 41), Manifest(Devbuild("2"), 3, 42),
                        Manifest(Devbuild("3"), 4, 43), Manifest(Devbuild("4"), 6, 44),
                        Manifest(Devbuild("5"), 7, 45), Manifest(TagRc2, 1, 46),
                        Manifest(TagRc3, 5, 47) >> ]

RepoNames == DOMAIN Registry

\* api.DockerImage
DockerImage(name, tag, digest, created) ==
  [Name |-> name, Tag |-> tag, ContentDigest |-> digest, Created |-> created]

NoImage == DockerImage("", <<>>, 0, 0)

\* Tags(repo): the tag list of a repository the registry knows.
Tags(repo) == [k \in 1..Len(Registry[repo]) |-> Registry[repo][k].tag]

HasManifest(repo, tag) ==
  repo \in RepoNames /\ \E k \in 1..Len(Registry[repo]) : Registry[repo][k].tag = tag

\* ImageDetails(repo:tag) on a manifest the registry has: name and tag are the
\* ones of the request, Created is the first history entry's timestamp, the
\* digest is the Docker-Content-Digest header of the second request.
ImageDetails(repo, tag) ==
  LET k == CHOOSE j \in 1..Len(Registry[repo]) : Registry[repo][j].tag = tag
  IN  DockerImage(repo, tag, Registry[repo][k].digest, Registry[repo][k].created)

\* What the parse functions of ImageDetails do with a response that came with
\* status 200: Decode and time.Parse return their error; the type assertions on
\* a field the JSON lacks (name, tag, history, created) and the index [0] into a
\* Docker-Content-Digest header that is not there panic.
ParseOutcome(shape) ==
  CASE shape = "ok"           -> "ok"
    [] shape = "invalid-json" -> "error"
    [] shape = "bad-time"     -> "error"
    [] shape = "no-fields"    -> "panic"
    [] shape = "no-digest"    -> "panic"

\* the shape of the manifest behind repo:tag
Shape(repo, tag) ==
  LET k == CHOOSE j \in 1..Len(Registry[repo]) : Registry[repo][j].tag = tag
  IN  Registry[repo][k].shape

\* ------------------------------------------------------------------ filters
\* strings.Contains(s, sub)
Contains(s, sub) ==
  \E k \in 0..(Len(s) - Len(sub)) : SubSeq(s, k + 1, k + Len(sub)) = sub

\* The three filters the images command builds from its flags.
OlderThan(t)    == [kind |-> "older-than",   t |-> t, s |-> <<>>]
TagContains(s)  == [kind |-> "tag-contains", t |-> 0, s |-> s]
TagExclude(s)   == [kind |-> "tag-exclude",  t |-> 0, s |-> s]

\* filter(img) for one ImgFilter closure
ApplyFilter(f, img) ==
  CASE f.kind = "older-than"   -> img.Created < f.t
    [] f.kind = "tag-contains" -> Contains(img.Tag, f.s)
    [] f.kind = "tag-exclude"  -> ~Contains(img.Tag, f.s)

RECURSIVE PassesFrom(_, _, _)
\* the inner loop over filters of the collector: the first filter that rejects
\* the image ends the iteration (continue Outer), otherwise the image is kept
PassesFrom(img, fs, k) ==
  IF k > Len(fs) THEN TRUE
  ELSE IF ~ApplyFilter(fs[k], img) THEN FALSE
  ELSE PassesFrom(img, fs, k + 1)

KeptFirstFilterOnly(img, fs) == Len(fs) = 0 \/ ApplyFilter(fs[1], img)

Kept(img, fs) == PassesFrom(img, fs, 1)

\* --------------------------------------------------------------------- sort
LessBefore(a, b) == a.Created < b.Created

\* ByCreated.Less: s[i].Created.After(s[j].Created)
Less(a, b) == a.Created > b.Created

RECURSIVE SiftDown(_, _)
\* inner loop of the insertion sort: for j := i; j > a && Less(j, j-1); j-- { Swap }
SiftDown(s, j) ==
  IF j > 1 /\ Less(s[j], s[j - 1])
  THEN SiftDown([s EXCEPT ![j] = s[j - 1], ![j - 1] = s[j]], j - 1)
  ELSE s

RECURSIVE InsertionSortFrom(_, _)
InsertionSortFrom(s, i) ==
  IF i > Len(s) THEN s ELSE InsertionSortFrom(SiftDown(s, i), i + 1)

\* sort.Sort(ByCreated(imgs)): for fewer than 12 elements the library sorts by
\* insertion, which keeps equal elements in their order of arrival
Unsorted(s) == s

SortByCreated(s) == InsertionSortFrom(s, 2)

\* ---------------------------------------------------------- top-N exclusion
RemainderOffByOne(repoimgs, k) ==
  IF Len(repoimgs) >= k THEN SubSeq(repoimgs, k, Len(repoimgs)) ELSE <<>>

\* if len(repoimgs) > n { allimgs = append(allimgs, repoimgs[n:]...) }
Remainder(repoimgs, k) ==
  IF Len(repoimgs) > k THEN SubSeq(repoimgs, k + 1, Len(repoimgs)) ELSE <<>>

AppendInFront(all, rem) == rem \o all

AppendAll(all, rem) == all \o rem

\* -------------------------------------------------------------------- state
VARIABLES
  repos,        \* --repo values, in the order given
  filters,      \* the filter chain built from the flags
  n,            \* --exclude-latest
  args,         \* the other flags on the command line, by name
  failBudget,   \* transport errors the registry calls may still meet
  cpc,          \* the images command: "parse", "usage" (rejected), "idle" between
                \* calls, "running", "done", "confirm", "delete", "exit", "crashed"
  ri,           \* index of the next fetch_images call of the command
  allimgs,      \* allimgs of fetch_images_older_than_n_latest / imgs of the command
  result,       \* the sequence handed to the caller, once cpc = "done"
  hist,         \* one record per finished fetch_images call
  frepos,       \* repos argument of the running fetch_images
  pc,           \* position of the goroutine running fetch_images
  i,            \* index of the first loop (range repos)
  ti,           \* index of the inner loop (range currepotags.tags)
  currepotags,  \* the range variable of the tag-stream loop, shared with the closures
  dw,           \* discovery workers, one per element of frepos
  fw,           \* fetch workers, in spawn order
  tagwait,      \* sync.WaitGroup counters
  imgwait,
  tagsClosed,   \* close(tagschan) has happened
  imgClosed,    \* close(imgchan) has happened
  closer1,      \* go func() { tagwait.Wait(); close(tagschan) }()
  closer2,      \* go func() { imgwait.Wait(); close(imgchan) }()
  imgs,         \* imgs of fetch_images, in order of arrival
  throttle,     \* number of ticks in the one-slot buffer of the time.Tick channel
  now,          \* the clock
  tickStart,    \* the instant time.Tick was called
  admit,        \* receives from throttle in this run: count, first, previous, last instant
  log,          \* log.Printf entries
  answers,      \* the lines Confirm has read from standard input
  deleted       \* the DeleteImage calls made, in order, with their outcome

inputVars  == <<repos, filters, n, args>>
callerVars == <<cpc, ri, allimgs, result, hist>>
frameVars  == <<frepos, pc, i, ti, currepotags, dw, fw, tagwait, imgwait,
                tagsClosed, imgClosed, closer1, closer2, imgs>>
timeVars   == <<throttle, now, tickStart, admit>>
tailVars   == <<answers, deleted>>
vars == <<inputVars, failBudget, callerVars, frameVars, timeVars, log, tailVars>>

\* ------------------------------------------------------------------- inputs
RECURSIVE ListsUpTo(_, _)
ListsUpTo(S, k) ==
  IF k = 0 THEN { <<>> }
  ELSE LET shorter == ListsUpTo(S, k - 1)
       IN  shorter \cup { Append(l, x) : l \in shorter, x \in S }

Chains ==
  { <<>>,
    << TagContains(StrDev) >>,
    << TagExclude(StrRc), OlderThan(3) >> }

\* the flags of the images command (cli.Command.Flags)
Flags == {"repo", "older-than", "tag-contains", "tag-exclude", "delete", "exclude-latest"}

\* command lines with --delete, and with the --yes of the README's example
ArgSets == { {"delete"}, {"delete", "yes"} }

Input(rs, fs, k, fb, as) ==
  [repos |-> rs, filters |-> fs, n |-> k, fail |-> fb, args |-> as]

\* every list of up to MaxRepos of the two small repositories (the empty list
\* too: the command rejects it, fetch_images accepts it), every chain, with and
\* without --exclude-latest, transport errors allowed, always with --delete;
\* the examples below are without it
GeneralInputs ==
  { Input(rs, fs, k, MaxFail, as) :
      rs \in ListsUpTo({"A", "C"}, MaxRepos), fs \in Chains, k \in 0..MaxN,
      as \in ArgSets }

\* the two-repository scenario (2 and 5 images, n = 3) and the README example
ABInput  == Input(<<"A", "B">>, <<>>, 3, 0, {})
WebInput == Input(<<"webserver">>, << TagContains(StrDev) >>, 3, 0, {})
\* three repositories, so that one listing can fail while two succeed
ThreeInput == Input(<<"A", "C", "C">>, <<>>, 0, 1, {})
\* a repository with manifests the registry answers for in a malformed way
MalformedInput == Input(<<"M">>, <<>>, 0, 0, {})
\* the command line of the README's example, for the repository of its listing
ReadmeInput ==
  Input(<<"webserver">>, << TagContains(StrDev) >>, 3, 0, {"delete", "yes"})
\* a repository in which two tags point to the same manifest
TwinInput == Input(<<"T">>, <<>>, 1, 1, {"delete"})
\* --exclude-latest with a negative value
NegativeInput == Input(<<"A">>, <<>>, -1, 0, {"delete"})
ExampleInputs ==
  { ABInput, WebInput, Input(<<"A", "B">>, <<>>, 1, 0, {}), ThreeInput,
    MalformedInput, ReadmeInput, TwinInput, NegativeInput }

Inputs == GeneralInputs \cup ExampleInputs

NoTags == [repo |-> "", tags |-> <<>>]
NoAdmit == [count |-> 0, first |-> 0, prev |-> 0, last |-> 0]

InitWith(in) ==
  /\ repos = in.repos
  /\ filters = in.filters
  /\ n = in.n
  /\ args = in.args
  /\ failBudget = in.fail
  /\ cpc = "parse"
  /\ ri = 1
  /\ allimgs = <<>>
  /\ result = <<>>
  /\ hist = <<>>
  /\ frepos = <<>>
  /\ pc = "none"
  /\ i = 1
  /\ ti = 1
  /\ currepotags = NoTags
  /\ dw = <<>>
  /\ fw = <<>>
  /\ tagwait = 0
  /\ imgwait = 0
  /\ tagsClosed = FALSE
  /\ imgClosed = FALSE
  /\ closer1 = "none"
  /\ closer2 = "none"
  /\ imgs = <<>>
  /\ throttle = 0
  /\ now = 0
  /\ tickStart = 0
  /\ admit = NoAdmit
  /\ log = {}
  /\ answers = <<>>
  /\ deleted = <<>>

Init == \E in \in Inputs : InitWith(in)

\* --------------------------------------------------------- the images command
\* exclude_latest > 0 selects fetch_images_older_than_n_latest, which calls
\* fetch_images once per repository; otherwise fetch_images is called once with
\* the whole list.
ExcludeLatestFromZero(k) == k >= 0

\* if exclude_latest := c.Int("exclude-latest"); exclude_latest > 0
ExcludeLatest(k) == k > 0

CallsMerged == << repos >>

Calls ==
  IF ExcludeLatest(n) THEN [k \in 1..Len(repos) |-> << repos[k] >>] ELSE << repos >>

\* app.Run parses the command line against the flags of the command: a flag
\* that is not one of them is a usage error and the action does not run
ParseFlags ==
  /\ cpc = "parse"
  /\ cpc' = IF args \subseteq Flags THEN "idle" ELSE "usage"
  /\ UNCHANGED <<inputVars, tailVars, failBudget, ri, allimgs, result, hist, frameVars,
                 timeVars, log>>

\* fetch_images is entered: the ticker, the channels and the WaitGroups are created
CallFetchImages ==
  /\ cpc = "idle"
  /\ ri <= Len(Calls)
  /\ cpc' = "running"
  /\ frepos' = Calls[ri]
  /\ pc' = "discover"
  /\ i' = 1
  /\ ti' = 1
  /\ currepotags' = NoTags
  /\ dw' = [w \in 1..Len(Calls[ri]) |-> [st |-> "idle", ok |-> FALSE, calls |-> 0]]
  /\ fw' = <<>>
  /\ tagwait' = 0
  /\ imgwait' = 0
  /\ tagsClosed' = FALSE
  /\ imgClosed' = FALSE
  /\ closer1' = "none"
  /\ closer2' = "none"
  /\ imgs' = <<>>
  /\ throttle' = 0
  /\ tickStart' = now
  /\ admit' = NoAdmit
  /\ UNCHANGED <<inputVars, tailVars, failBudget, ri, allimgs, result, hist, now, log>>

\* the command has its list of images
Finish ==
  /\ cpc = "idle"
  /\ ri > Len(Calls)
  /\ cpc' = "done"
  /\ result' = allimgs
  /\ UNCHANGED <<inputVars, tailVars, failBudget, ri, allimgs, hist, frameVars, timeVars, log>>

\* strings.TrimSpace on a line of standard input
IsSpace(c) == c \in {" ", "\n", "\t", "\r"}

RECURSIVE TrimLeft(_)
TrimLeft(l) == IF l # <<>> /\ IsSpace(Head(l)) THEN TrimLeft(Tail(l)) ELSE l

RECURSIVE TrimRight(_)
TrimRight(l) ==
  IF l # <<>> /\ IsSpace(l[Len(l)]) THEN TrimRight(SubSeq(l, 1, Len(l) - 1)) ELSE l

TrimSpace(l) == TrimRight(TrimLeft(l))

\* what the operator may type at the prompt; the empty line is what ReadString
\* gives at the end of the input
Answers ==
  { <<"y", "\n">>, <<" ", "n", "\n">>, <<"y", "e", "s", "\n">>, <<>> }

AnswerAnyY(ans) == IF Contains(ans, <<"y">>) THEN "true" ELSE "again"

\* the switch of Confirm: "y" returns true, "n" returns false, anything else
\* goes round the loop
Answer(ans) ==
  CASE TrimSpace(ans) = <<"y">> -> "true"
    [] TrimSpace(ans) = <<"n">> -> "false"
    [] OTHER                    -> "again"

\* fetch_images has returned for the last time: its locals are gone, and so is
\* the record of its calls
FrameDropped ==
  /\ hist' = <<>>
  /\ frepos' = <<>>
  /\ i' = 1
  /\ ti' = 1
  /\ currepotags' = NoTags
  /\ dw' = <<>>
  /\ fw' = <<>>
  /\ tagwait' = 0
  /\ imgwait' = 0
  /\ tagsClosed' = FALSE
  /\ imgClosed' = FALSE
  /\ closer1' = "none"
  /\ closer2' = "none"
  /\ imgs' = <<>>
  /\ throttle' = 0
  /\ tickStart' = 0
  /\ admit' = NoAdmit

\* the images are printed (nothing to do when there is none); without --delete
\* the command is over, with it Confirm is called
ListImages ==
  /\ cpc = "done"
  /\ cpc' = IF Len(result) = 0 \/ "delete" \notin args THEN "exit" ELSE "confirm"
  /\ FrameDropped
  /\ UNCHANGED <<inputVars, tailVars, failBudget, ri, allimgs, result, pc, now, log>>

\* Confirm, one round of its loop: prompt, read a line, switch on it
Confirm ==
  /\ cpc = "confirm"
  /\ Len(answers) < MaxPrompts
  /\ \E ans \in Answers :
       /\ answers' = Append(answers, ans)
       /\ cpc' = CASE Answer(ans) = "true"  -> "delete"
                   [] Answer(ans) = "false" -> "exit"
                   [] OTHER                 -> "confirm"
  /\ UNCHANGED <<inputVars, deleted, failBudget, ri, allimgs, result, hist, frameVars,
                 timeVars, log>>

\* DeleteImage: DELETE <repository>/manifests/<digest>. The request names the
\* manifest by its digest, and with the manifest goes every tag that points to it.
Deletes(img, repo, digest) == img.Name = repo /\ img.ContentDigest = digest

\* the delete loop, one iteration: r.DeleteImage(img) for the next image of the
\* list; SUCCESS or the error is printed and the loop goes on
Delete ==
  /\ cpc = "delete"
  /\ Len(deleted) < Len(result)
  /\ \/ /\ deleted' = Append(deleted, [img |-> result[Len(deleted) + 1], ok |-> TRUE])
        /\ UNCHANGED failBudget
     \/ /\ failBudget > 0
        /\ failBudget' = failBudget - 1
        /\ deleted' = Append(deleted, [img |-> result[Len(deleted) + 1], ok |-> FALSE])
  /\ UNCHANGED <<inputVars, answers, cpc, ri, allimgs, result, hist, frameVars, timeVars,
                 log>>

\* the delete loop is over: return nil
DeleteDone ==
  /\ cpc = "delete"
  /\ Len(deleted) = Len(result)
  /\ cpc' = "exit"
  /\ UNCHANGED <<inputVars, tailVars, failBudget, ri, allimgs, result, hist, frameVars,
                 timeVars, log>>

\* ------------------------------------------------------------- fetch_images
\* <-throttle: one tick leaves the buffer of the ticker's channel
Admitted(a, t) ==
  [count |-> a.count + 1,
   first |-> IF a.count = 0 THEN t ELSE a.first,
   prev  |-> a.last,
   last  |-> t]

\* first loop, one iteration: tagwait.Add(1); <-throttle; go func() {...}()
Discover ==
  /\ cpc = "running" /\ pc = "discover"
  /\ i <= Len(frepos)
  /\ throttle > 0
  /\ throttle' = throttle - 1
  /\ admit' = Admitted(admit, now)
  /\ tagwait' = tagwait + 1
  /\ dw' = [dw EXCEPT ![i].st = "call"]
  /\ i' = i + 1
  /\ UNCHANGED <<inputVars, tailVars, failBudget, callerVars, frepos, pc, ti, currepotags, fw,
                 imgwait, tagsClosed, imgClosed, closer1, closer2, imgs, now,
                 tickStart, log>>

\* the first loop is over: go func() { tagwait.Wait(); close(tagschan) }()
StartTagCloser ==
  /\ cpc = "running" /\ pc = "discover"
  /\ i > Len(frepos)
  /\ closer1' = "wait"
  /\ pc' = "tags"
  /\ UNCHANGED <<inputVars, tailVars, failBudget, callerVars, frepos, i, ti, currepotags, dw, fw,
                 tagwait, imgwait, tagsClosed, imgClosed, closer2, imgs, timeVars, log>>

\* discovery worker w: r.Tags(currepo) returns the tag list; the worker is now
\* blocked in tagschan <- &repotags{currepo, curtags}
TagsOk(w) ==
  /\ cpc = "running"
  /\ dw[w].st = "call"
  /\ dw' = [dw EXCEPT ![w] = [st |-> "send", ok |-> TRUE, calls |-> @.calls + 1]]
  /\ UNCHANGED <<inputVars, tailVars, failBudget, callerVars, frepos, pc, i, ti, currepotags, fw,
                 tagwait, imgwait, tagsClosed, imgClosed, closer1, closer2, imgs,
                 timeVars, log>>

TagsFailNoDone(w) ==
  /\ cpc = "running"
  /\ dw[w].st = "call"
  /\ failBudget > 0
  /\ failBudget' = failBudget - 1
  /\ dw' = [dw EXCEPT ![w] = [st |-> "done", ok |-> FALSE, calls |-> @.calls + 1]]
  /\ UNCHANGED <<inputVars, tailVars, callerVars, frepos, pc, i, ti, currepotags, fw, tagwait,
                 imgwait, tagsClosed, imgClosed, closer1, closer2, imgs, timeVars, log>>

\* discovery worker w: r.Tags(currepo) returns an error; nothing is sent and
\* nothing is logged, tagwait.Done() runs
TagsFail(w) ==
  /\ cpc = "running"
  /\ dw[w].st = "call"
  /\ failBudget > 0
  /\ failBudget' = failBudget - 1
  /\ dw' = [dw EXCEPT ![w] = [st |-> "done", ok |-> FALSE, calls |-> @.calls + 1]]
  /\ tagwait' = tagwait - 1
  /\ UNCHANGED <<inputVars, tailVars, callerVars, frepos, pc, i, ti, currepotags, fw,
                 imgwait, tagsClosed, imgClosed, closer1, closer2, imgs, timeVars, log>>

\* for currepotags := range tagschan receives what worker w sends; the worker
\* goes on to tagwait.Done()
RecvTags(w) ==
  /\ cpc = "running" /\ pc = "tags"
  /\ ~tagsClosed
  /\ dw[w].st = "send"
  /\ currepotags' = [repo |-> frepos[w], tags |-> Tags(frepos[w])]
  /\ ti' = 1
  /\ pc' = "fetch"
  /\ dw' = [dw EXCEPT ![w].st = "done"]
  /\ tagwait' = tagwait - 1
  /\ UNCHANGED <<inputVars, tailVars, failBudget, callerVars, frepos, i, fw, imgwait,
                 tagsClosed, imgClosed, closer1, closer2, imgs, timeVars, log>>

CloseTagsEarly ==
  /\ cpc = "running"
  /\ closer1 = "wait"
  /\ tagsClosed' = TRUE
  /\ closer1' = "done"
  /\ UNCHANGED <<inputVars, tailVars, failBudget, callerVars, frepos, pc, i, ti,
                 currepotags, dw, fw, tagwait, imgwait, imgClosed, closer2, imgs,
                 timeVars, log>>

\* the closer of the tag stream: tagwait.Wait() returns at zero, close(tagschan)
CloseTags ==
  /\ cpc = "running"
  /\ closer1 = "wait"
  /\ tagwait = 0
  /\ tagsClosed' = TRUE
  /\ closer1' = "done"
  /\ UNCHANGED <<inputVars, tailVars, failBudget, callerVars, frepos, pc, i, ti, currepotags, dw,
                 fw, tagwait, imgwait, imgClosed, closer2, imgs, timeVars, log>>

\* a fetch worker as the go statement leaves it: tag is its own copy, the
\* repository is read later, through currepotags
NewFetchWorker(repo, tag) ==
  [repo |-> repo, tag |-> tag, st |-> "call", req |-> "", img |-> NoImage, ok |-> FALSE,
   calls |-> 0]

FetchUnthrottled ==
  /\ cpc = "running" /\ pc = "fetch"
  /\ ti <= Len(currepotags.tags)
  /\ imgwait' = imgwait + 1
  /\ fw' = Append(fw, NewFetchWorker(currepotags.repo, currepotags.tags[ti]))
  /\ ti' = ti + 1
  /\ UNCHANGED <<inputVars, tailVars, failBudget, callerVars, frepos, pc, i, currepotags,
                 dw, tagwait, tagsClosed, imgClosed, closer1, closer2, imgs, timeVars,
                 log>>

\* inner loop, one iteration: imgwait.Add(1); tag := tag; <-throttle; go func() {...}()
Fetch ==
  /\ cpc = "running" /\ pc = "fetch"
  /\ ti <= Len(currepotags.tags)
  /\ throttle > 0
  /\ throttle' = throttle - 1
  /\ admit' = Admitted(admit, now)
  /\ imgwait' = imgwait + 1
  /\ fw' = Append(fw, NewFetchWorker(currepotags.repo, currepotags.tags[ti]))
  /\ ti' = ti + 1
  /\ UNCHANGED <<inputVars, tailVars, failBudget, callerVars, frepos, pc, i, currepotags, dw,
                 tagwait, tagsClosed, imgClosed, closer1, closer2, imgs, now,
                 tickStart, log>>

\* the inner loop is over: back to the receive of the tag stream
NextTags ==
  /\ cpc = "running" /\ pc = "fetch"
  /\ ti > Len(currepotags.tags)
  /\ pc' = "tags"
  /\ UNCHANGED <<inputVars, tailVars, failBudget, callerVars, frepos, i, ti, currepotags, dw, fw,
                 tagwait, imgwait, tagsClosed, imgClosed, closer1, closer2, imgs,
                 timeVars, log>>

\* the tag stream is closed, the range loop ends:
\* go func() { imgwait.Wait(); close(imgchan) }()
StartImgCloser ==
  /\ cpc = "running" /\ pc = "tags"
  /\ tagsClosed
  /\ closer2' = "wait"
  /\ pc' = "collect"
  /\ UNCHANGED <<inputVars, tailVars, failBudget, callerVars, frepos, i, ti, currepotags, dw, fw,
                 tagwait, imgwait, tagsClosed, imgClosed, closer1, imgs, timeVars, log>>

\* The repository a fetch worker asks for: the closure evaluates
\* currepotags.repo when it runs, and currepotags is the one variable of the
\* loop, which the loop may have assigned again by then.
RepoReadOwnCopy(f) == fw[f].repo

RepoRead(f) == currepotags.repo

\* fetch worker f: r.ImageDetails(currepotags.repo + ":" + tag) returns the
\* image; the worker is now blocked in imgchan <- img
DetailsOk(f) ==
  /\ cpc = "running"
  /\ fw[f].st = "call"
  /\ HasManifest(RepoRead(f), fw[f].tag)
  /\ ParseOutcome(Shape(RepoRead(f), fw[f].tag)) = "ok"
  /\ fw' = [fw EXCEPT ![f] = [@ EXCEPT !.st = "send", !.req = RepoRead(f), !.ok = TRUE,
                                       !.calls = @ + 1,
                                       !.img = ImageDetails(RepoRead(f), fw[f].tag)]]
  /\ UNCHANGED <<inputVars, tailVars, failBudget, callerVars, frepos, pc, i, ti, currepotags, dw,
                 tagwait, imgwait, tagsClosed, imgClosed, closer1, closer2, imgs,
                 timeVars, log>>

\* log.Printf("Unable to get image (%s:%s): %s", currepotags.repo, tag, err)
UnableToGetImage(repo, tag) == [what |-> "Unable to get image", repo |-> repo, tag |-> tag]

\* fetch worker f: r.ImageDetails returns an error (the registry has no such
\* manifest, the response does not decode or its timestamp does not parse, or
\* the transport failed); log.Printf, then imgwait.Done()
DetailsFail(f) ==
  /\ cpc = "running"
  /\ fw[f].st = "call"
  /\ \/ /\ ~HasManifest(RepoRead(f), fw[f].tag)
        /\ UNCHANGED failBudget
     \/ /\ HasManifest(RepoRead(f), fw[f].tag)
        /\ ParseOutcome(Shape(RepoRead(f), fw[f].tag)) = "error"
        /\ UNCHANGED failBudget
     \/ /\ HasManifest(RepoRead(f), fw[f].tag)
        /\ failBudget > 0
        /\ failBudget' = failBudget - 1
  /\ fw' = [fw EXCEPT ![f] = [@ EXCEPT !.st = "done", !.req = RepoRead(f),
                                       !.calls = @ + 1]]
  /\ log' = log \cup { UnableToGetImage(RepoRead(f), fw[f].tag) }
  /\ imgwait' = imgwait - 1
  /\ UNCHANGED <<inputVars, tailVars, callerVars, frepos, pc, i, ti, currepotags, dw,
                 tagwait, tagsClosed, imgClosed, closer1, closer2, imgs, timeVars>>

\* fetch worker f: a parse function of r.ImageDetails panics on the response;
\* nothing recovers the panic and the process ends with every goroutine in it
DetailsPanic(f) ==
  /\ cpc = "running"
  /\ fw[f].st = "call"
  /\ HasManifest(RepoRead(f), fw[f].tag)
  /\ ParseOutcome(Shape(RepoRead(f), fw[f].tag)) = "panic"
  /\ fw' = [fw EXCEPT ![f] = [@ EXCEPT !.st = "panic", !.req = RepoRead(f),
                                       !.calls = @ + 1]]
  /\ cpc' = "crashed"
  /\ UNCHANGED <<inputVars, tailVars, failBudget, ri, allimgs, result, hist, frepos, pc,
                 i, ti, currepotags, dw, tagwait, imgwait, tagsClosed, imgClosed,
                 closer1, closer2, imgs, timeVars, log>>

\* imgs = append(imgs, img) unless a filter rejects img
Collected(acc, img, fs) == IF Kept(img, fs) THEN Append(acc, img) ELSE acc

\* for img := range imgchan receives what worker f sends and runs the body of
\* the loop; the worker goes on to imgwait.Done()
Collect(f) ==
  /\ cpc = "running" /\ pc = "collect"
  /\ ~imgClosed
  /\ fw[f].st = "send"
  /\ imgs' = Collected(imgs, fw[f].img, filters)
  /\ fw' = [fw EXCEPT ![f].st = "done"]
  /\ imgwait' = imgwait - 1
  /\ UNCHANGED <<inputVars, tailVars, failBudget, callerVars, frepos, pc, i, ti, currepotags, dw,
                 tagwait, tagsClosed, imgClosed, closer1, closer2, timeVars, log>>

CloseImgsEarly ==
  /\ cpc = "running"
  /\ closer2 = "wait"
  /\ imgClosed' = TRUE
  /\ closer2' = "done"
  /\ UNCHANGED <<inputVars, tailVars, failBudget, callerVars, frepos, pc, i, ti,
                 currepotags, dw, fw, tagwait, imgwait, tagsClosed, closer1, imgs,
                 timeVars, log>>

\* the closer of the image stream: imgwait.Wait() returns at zero, close(imgchan)
CloseImgs ==
  /\ cpc = "running"
  /\ closer2 = "wait"
  /\ imgwait = 0
  /\ imgClosed' = TRUE
  /\ closer2' = "done"
  /\ UNCHANGED <<inputVars, tailVars, failBudget, callerVars, frepos, pc, i, ti, currepotags, dw,
                 fw, tagwait, imgwait, tagsClosed, closer1, imgs, timeVars, log>>

\* what the caller of fetch_images does with the returned sequence
Took(all, ret, k) == IF ExcludeLatest(k) THEN AppendAll(all, Remainder(ret, k)) ELSE ret

\* the image stream is closed, the range loop ends: sort.Sort and return; the
\* caller appends the remainder (or, without --exclude-latest, takes it all)
Return ==
  /\ cpc = "running" /\ pc = "collect"
  /\ imgClosed
  /\ LET ret == SortByCreated(imgs)
     IN  /\ allimgs' = Took(allimgs, ret, n)
         /\ hist' = Append(hist, [repos |-> frepos, arrived |-> imgs, ret |-> ret,
                                   dw |-> dw, fw |-> fw,
                                   all |-> Took(allimgs, ret, n)])
  /\ cpc' = "idle"
  /\ pc' = "none"
  /\ ri' = ri + 1
  /\ UNCHANGED <<inputVars, tailVars, failBudget, result, frepos, i, ti, currepotags, dw, fw,
                 tagwait, imgwait, tagsClosed, imgClosed, closer1, closer2, imgs,
                 timeVars, log>>

\* ------------------------------------------------------------------ ticker
\* The runtime's ticker sends on a channel with a buffer of one and does not
\* block: a tick that finds the buffer full is dropped.
Ticked(buf) == IF buf = 0 THEN 1 ELSE buf

\* a tick arrives (no clock: only the order of events)
Tick ==
  /\ cpc = "running"
  /\ throttle = 0
  /\ throttle' = Ticked(throttle)
  /\ UNCHANGED <<inputVars, tailVars, failBudget, callerVars, frameVars, now, tickStart, admit, log>>

\* the loop is at <-throttle and a tick is in the buffer: the receive is immediate
ReceiveReady ==
  /\ cpc = "running"
  /\ throttle > 0
  /\ \/ pc = "discover" /\ i <= Len(frepos)
     \/ pc = "fetch" /\ ti <= Len(currepotags.tags)

\* one unit of time passes; the ticker fires every Interval after time.Tick
TimePass ==
  /\ now < MaxTime
  /\ ~ReceiveReady
  /\ now' = now + 1
  /\ throttle' = IF cpc = "running" /\ (now + 1 - tickStart) % Interval = 0
                 THEN Ticked(throttle) ELSE throttle
  /\ UNCHANGED <<inputVars, tailVars, failBudget, callerVars, frameVars, tickStart, admit, log>>

\* ----------------------------------------------------------- specifications
Main ==
  \/ ParseFlags
  \/ CallFetchImages
  \/ Finish
  \/ ListImages
  \/ Confirm
  \/ Delete
  \/ DeleteDone
  \/ Discover
  \/ StartTagCloser
  \/ \E w \in DOMAIN dw : RecvTags(w)
  \/ Fetch
  \/ NextTags
  \/ StartImgCloser
  \/ \E f \in DOMAIN fw : Collect(f)
  \/ Return

Workers ==
  \/ \E w \in DOMAIN dw : TagsOk(w)
  \/ \E w \in DOMAIN dw : TagsFail(w)
  \/ \E f \in DOMAIN fw : DetailsOk(f)
  \/ \E f \in DOMAIN fw : DetailsFail(f)

Closers ==
  \/ CloseTags
  \/ CloseImgs

\* a panic in a fetch worker
Abort == \E f \in DOMAIN fw : DetailsPanic(f)

Next ==
  \/ Main
  \/ Workers
  \/ Closers
  \/ Tick
  \/ Abort

Spec == Init /\ [][Next]_vars

\* Every registry call returns, every runnable goroutine runs and the ticker
\* keeps ticking.
Fairness ==
  /\ WF_vars(Main)
  /\ WF_vars(Workers)
  /\ WF_vars(Closers)
  /\ WF_vars(Tick)

\* termination does not depend on the filters: the empty chain
LiveInputs == { in \in GeneralInputs : in.filters = <<>> }

InitLive == \E in \in LiveInputs : InitWith(in)

\* every manifest of the repositories of LiveInputs is well formed: no call panics
NextLive ==
  \/ Main
  \/ Workers
  \/ Closers
  \/ Tick

SpecLive == InitLive /\ [][NextLive]_vars /\ Fairness

\* The same program against a clock: a single repository (or none), so that a run
\* fits in MaxTime.
TimedInputs == { in \in GeneralInputs : Len(in.repos) <= 1 }

InitTimed == \E in \in TimedInputs : InitWith(in)

NextTimed ==
  \/ Main
  \/ Workers
  \/ Closers
  \/ TimePass

SpecTimed == InitTimed /\ [][NextTimed]_vars

\* ------------------------------------------------- vocabulary of the claims
Range(s) == { s[k] : k \in DOMAIN s }

Count(s, x) == Cardinality({ k \in DOMAIN s : s[k] = x })

\* sorted by creation time, descending: no element is before a later one
IsSortedDesc(s) ==
  \A a, b \in DOMAIN s : a < b => ~(s[a].Created < s[b].Created)

\* every filter of the chain returns true
PassesAll(img) == \A k \in DOMAIN filters : ApplyFilter(filters[k], img)

\* the images of a repository in the registry
RegistryImages(repo) ==
  { ImageDetails(repo, Registry[repo][k].tag) : k \in DOMAIN Registry[repo] }

\* s without its first k elements
Drop(s, k) == [j \in 1..(IF Len(s) > k THEN Len(s) - k ELSE 0) |-> s[j + k]]

\* the images the metadata stage of a finished call delivered on the image stream
Delivered(h) == { h.fw[f].img : f \in { g \in DOMAIN h.fw : h.fw[g].ok } }

\* no registry call of a finished call returned an error
NoFailure(h) ==
  /\ \A w \in DOMAIN h.dw : h.dw[w].ok
  /\ \A f \in DOMAIN h.fw : h.fw[f].ok

\* what the k-th call added to allimgs
Contribution(k) ==
  LET before == IF k = 1 THEN <<>> ELSE hist[k - 1].all
  IN  SubSeq(hist[k].all, Len(before) + 1, Len(hist[k].all))

Done == cpc = "done"

\* --------------------------------------------------------------------- C1
\* C1: with --exclude-latest n >= 1, whatever the interleaving, the k-th
\* repository of the list contributes exactly its own filtered images sorted by
\* creation time descending with the first n removed, and nothing when n or
\* fewer of its images survive: the k-th call is for that repository alone,
\* delivers images of that repository only (all of them when no call fails),
\* and its contribution is made of the surviving delivered images, all of them
\* but the n newest.
PerRepositoryContribution ==
  n > 0 =>
    \A k \in DOMAIN hist :
      LET h == hist[k]
          surviving == { x \in Delivered(h) : PassesAll(x) }
          c == Contribution(k)
      IN  /\ k \in DOMAIN repos
          /\ h.repos = << repos[k] >>
          /\ Delivered(h) \subseteq RegistryImages(repos[k])
          /\ NoFailure(h) => Delivered(h) = RegistryImages(repos[k])
          /\ IsSortedDesc(c)
          /\ Range(c) \subseteq surviving
          /\ \A x \in Range(c) : Count(c, x) = 1
          /\ Len(c) = IF Cardinality(surviving) > n
                      THEN Cardinality(surviving) - n ELSE 0
          /\ \A x \in Range(c), y \in surviving \ Range(c) : ~(y.Created < x.Created)

\* A with 2 images, B with 5 images, n = 3: nothing of A, the 2 oldest of B
C1Witness ==
  /\ Done
  /\ repos = <<"A", "B">> /\ n = 3
  /\ Len(hist) = 2 /\ Len(hist[1].ret) = 2 /\ Contribution(1) = <<>>
  /\ result = << ImageDetails("B", TagDev2), ImageDetails("B", TagDev1) >>

\* --------------------------------------------------------------------- C2
\* C2: the n images kept back per repository are the n most recently created
\* among those that pass every filter: every image of the result passes every
\* filter; when no call fails an image is in the result exactly when at least n
\* images of its repository that pass the filters are newer than it; and for
\* webserver with tag-contains dev and n = 3 the result is devbuild-2,
\* devbuild-1.
NewerSurvivors(x) ==
  { y \in RegistryImages(x.Name) : PassesAll(y) /\ y.Created > x.Created }

ExclusionAfterFiltering ==
  (Done /\ n > 0) =>
    /\ \A x \in Range(result) : PassesAll(x)
    /\ ( /\ \A k \in DOMAIN hist : NoFailure(hist[k])
         /\ \A k \in DOMAIN repos :
              \A x, y \in RegistryImages(repos[k]) : x # y => x.Created # y.Created ) =>
         /\ \A x \in Range(result) : Cardinality(NewerSurvivors(x)) >= n
         /\ \A k \in DOMAIN repos :
              \A y \in RegistryImages(repos[k]) :
                (PassesAll(y) /\ Cardinality(NewerSurvivors(y)) >= n)
                   => y \in Range(result)
    /\ (repos = WebInput.repos /\ filters = WebInput.filters /\ n = WebInput.n)
         => result = << ImageDetails("webserver", Devbuild("2")),
                        ImageDetails("webserver", Devbuild("1")) >>

C2Witness ==
  /\ Done
  /\ repos = WebInput.repos /\ filters = WebInput.filters /\ n = WebInput.n
  /\ Len(hist[1].fw) = 7
  /\ Len(hist[1].ret) = 5
  /\ result = << ImageDetails("webserver", Devbuild("2")),
                 ImageDetails("webserver", Devbuild("1")) >>

\* --------------------------------------------------------------------- C5
\* C5: whatever the order of arrival, the sequence fetch_images returns is
\* sorted by Created descending (no element is before a later one), the empty
\* and the one-element sequence included; so is the result of the command
\* without --exclude-latest.
ReturnedSorted ==
  /\ \A k \in DOMAIN hist : IsSortedDesc(hist[k].ret)
  /\ (Done /\ n = 0) => IsSortedDesc(result)

\* a call whose images arrived in another order than the one returned
C5Witness ==
  /\ Done /\ n = 0
  /\ Len(result) >= 3
  /\ hist[1].arrived # result
  /\ ~IsSortedDesc(hist[1].arrived)

\* --------------------------------------------------------------------- C6
\* C6: fetch_images returns exactly the delivered images that every filter of
\* the chain accepts: each image is returned as many times as it was delivered
\* if it passes all filters and not at all otherwise; with an empty chain every
\* delivered image is returned.
Deliveries(h, x) == Cardinality({ f \in DOMAIN h.fw : h.fw[f].ok /\ h.fw[f].img = x })

ReturnsFilteredDeliveries ==
  \A k \in DOMAIN hist :
    LET h == hist[k]
    IN  /\ Range(h.ret) \subseteq Delivered(h)
        /\ \A x \in Delivered(h) :
             Count(h.ret, x) = IF PassesAll(x) THEN Deliveries(h, x) ELSE 0
        /\ filters = <<>> => Range(h.ret) = Delivered(h)

\* a call under a chain of two filters that delivered an image the first filter
\* accepts and the second rejects, beside one that passes both
C6Witness ==
  /\ Len(filters) = 2
  /\ \E k \in DOMAIN hist :
       /\ \E x \in Delivered(hist[k]) :
            ApplyFilter(filters[1], x) /\ ~ApplyFilter(filters[2], x)
       /\ \E x \in Delivered(hist[k]) : PassesAll(x) /\ x \in Range(hist[k].ret)

\* -------------------------------------------------------------------- C10
\* C10: the result of fetch_images_older_than_n_latest is the concatenation, in
\* the order the repositories were supplied, of what remains of each
\* repository's sorted sequence after its first n elements; each remainder is
\* sorted by creation time descending and nothing sorts across repositories.
RECURSIVE ConcatRemainders(_)
ConcatRemainders(k) ==
  IF k = 0 THEN <<>> ELSE ConcatRemainders(k - 1) \o Drop(hist[k].ret, n)

ConcatenationInOrder ==
  n > 0 =>
    /\ \A k \in DOMAIN hist :
         /\ k \in DOMAIN repos
         /\ hist[k].repos = << repos[k] >>
         /\ hist[k].all = ConcatRemainders(k)
         /\ IsSortedDesc(Drop(hist[k].ret, n))
    /\ Done => (Len(hist) = Len(repos) /\ result = ConcatRemainders(Len(repos)))

\* two repositories contribute, the earlier one's older image first: the result
\* is not sorted as a whole
C10Witness ==
  /\ Done /\ n > 0
  /\ Len(repos) = 2
  /\ Contribution(1) # <<>> /\ Contribution(2) # <<>>
  /\ result = Contribution(1) \o Contribution(2)
  /\ ~IsSortedDesc(result)

\* --------------------------------------------------------------------- C3
\* the image of the discovered pair fetch worker f was started for
PairImage(h, f) == ImageDetails(h.fw[f].repo, h.fw[f].tag)

\* C3: when ImageDetails returns an error for some tags, fetch_images still
\* returns a sequence sorted by creation time descending that contains the
\* image of every other discovered (repo, tag) pair whose fetch succeeded and
\* which passes the filters.
PartialFailureIsolation ==
  \A k \in DOMAIN hist :
    LET h == hist[k]
    IN  (\E g \in DOMAIN h.fw : ~h.fw[g].ok) =>
          /\ IsSortedDesc(h.ret)
          /\ \A f \in DOMAIN h.fw :
               (h.fw[f].ok /\ PassesAll(PairImage(h, f)))
                  => PairImage(h, f) \in Range(h.ret)

\* --------------------------------------------------------------------- C4
\* positions of the list whose tag listing succeeded
Listed(h) == { w \in DOMAIN h.dw : h.dw[w].ok }

\* C4: when Tags returns an error for a repository, its worker still finishes
\* and the call completes; a failed listing adds no tag set (the fetch workers
\* are those of the tags of the successful listings) and no image; every other
\* repository is discovered, a fetch is started for each of its tags, and each
\* of its images whose fetch succeeded and which passes the filters is in the
\* result.
DiscoveryFailureIsolation ==
  \A k \in DOMAIN hist :
    LET h == hist[k]
    IN  (\E w \in DOMAIN h.dw : ~h.dw[w].ok) =>
          /\ \A w \in DOMAIN h.dw : h.dw[w].st = "done"
          /\ Len(h.fw) =
               Cardinality(UNION { {w} \X DOMAIN Tags(h.repos[w]) : w \in Listed(h) })
          /\ \A x \in Range(h.ret) : \E w \in Listed(h) : h.repos[w] = x.Name
          /\ \A w \in Listed(h) :
               \A t \in Range(Tags(h.repos[w])) :
                 \E f \in DOMAIN h.fw :
                   /\ h.fw[f].repo = h.repos[w] /\ h.fw[f].tag = t
                   /\ (h.fw[f].ok /\ PassesAll(PairImage(h, f)))
                         => PairImage(h, f) \in Range(h.ret)

\* --------------------------------------------------------------------- C7
\* C7: within one run of fetch_images any two consecutive receives from the
\* throttle channel are at least one interval apart, so that N admissions span
\* at least (N - 1) * interval, also after the loop was blocked for longer than
\* an interval.
ThrottleSpacing ==
  admit.count >= 2 =>
    /\ admit.last - admit.prev >= Interval
    /\ admit.last - admit.first >= (admit.count - 1) * Interval

\* --------------------------------------------------------------------- C9
RECURSIVE SortedDesc(_)
\* the images of S, the most recently created first
SortedDesc(S) ==
  IF S = {} THEN <<>>
  ELSE LET m == CHOOSE x \in S : \A y \in S : ~(x.Created < y.Created)
       IN  << m >> \o SortedDesc(S \ {m})

Survivors(repo) == { x \in RegistryImages(repo) : PassesAll(x) }

RECURSIVE ExpectedTopN(_)
ExpectedTopN(k) ==
  IF k = 0 THEN <<>>
  ELSE ExpectedTopN(k - 1) \o Drop(SortedDesc(Survivors(repos[k])), n)

\* the one sequence the inputs and the registry determine
ExpectedResult ==
  IF n > 0 THEN ExpectedTopN(Len(repos))
  ELSE SortedDesc(UNION { Survivors(repos[k]) : k \in DOMAIN repos })

DistinctTimes(S) == \A x, y \in S : x # y => x.Created # y.Created

\* C9: for a registry state in which no call fails and the images have distinct
\* creation times, every execution over the same repository list and filters
\* returns the same sequence, whatever the interleaving.
Deterministic ==
  ( /\ Done
    /\ \A k \in DOMAIN hist : NoFailure(hist[k])
    /\ \A a, b \in DOMAIN repos : a # b => repos[a] # repos[b]
    /\ DistinctTimes(UNION { RegistryImages(repos[k]) : k \in DOMAIN repos })
    /\ \A x \in Range(result) : Count(result, x) = 1 )
  => result = ExpectedResult

\* --------------------------------------------------------------------- C8
\* C8: if every registry call returns and the ticker keeps ticking, the command
\* whose action runs gets its result: every call of fetch_images returns, for
\* every repository list; with an empty list the result is the empty sequence.
Completion ==
  (cpc = "idle") ~> (Done /\ Len(hist) = Len(Calls) /\ (repos = <<>> => result = <<>>))

\* a finished call over two repositories in which one listing failed while the
\* workers of the other sent their tag set and their images
C8Witness ==
  /\ Done /\ n = 0 /\ Len(repos) = 2
  /\ \E w \in DOMAIN hist[1].dw : ~hist[1].dw[w].ok
  /\ \E w \in DOMAIN hist[1].dw : hist[1].dw[w].ok
  /\ Len(hist[1].fw) = 2
  /\ Len(result) = 2

\* -------------------------------------------------------------------- C11
\* C11: the images command invoked as in the README, with --delete --yes and
\* nobody at standard input, does not end in a usage error and does not wait
\* at the confirmation prompt; when it ends it has called DeleteImage for
\* every listed candidate.
UnattendedDeletion ==
  ({"delete", "yes"} \subseteq args) =>
    /\ cpc # "usage"
    /\ cpc # "confirm"
    /\ cpc = "exit" => Len(deleted) = Len(result)

\* -------------------------------------------------------------------- C12
\* C12: every metadata call a fetch worker has issued is for the repository the
\* worker was started for, so that its tag belongs to the tag list discovered
\* for the repository of the call.
OwnCopyOfInputs ==
  \A f \in DOMAIN fw :
    fw[f].calls > 0 =>
      /\ fw[f].req = fw[f].repo
      /\ \E w \in DOMAIN dw :
           /\ dw[w].ok
           /\ frepos[w] = fw[f].req
           /\ fw[f].tag \in Range(Tags(frepos[w]))

\* -------------------------------------------------------------------- C13
\* C13: a manifest response that is not as expected is a failure of that tag
\* alone: the call returns an error, no image is delivered for the tag, and the
\* process never aborts.
MalformedIsPerItem ==
  /\ cpc # "crashed"
  /\ \A f \in DOMAIN fw :
       (fw[f].calls > 0 /\ HasManifest(fw[f].req, fw[f].tag)
          /\ Shape(fw[f].req, fw[f].tag) # "ok")
         => (fw[f].st = "done" /\ ~fw[f].ok)

\* -------------------------------------------------------------------- C14
RECURSIVE SumCalls(_)
\* the registry calls the workers of ws have issued
SumCalls(ws) == IF ws = <<>> THEN 0 ELSE Head(ws).calls + SumCalls(Tail(ws))

\* the workers the two loops have started
Spawned == Cardinality({ w \in DOMAIN dw : dw[w].st # "idle" }) + Len(fw)

\* C14: every registry call of the pipeline, tag listing or metadata fetch, is
\* preceded by its own token of the one throttle: each worker was started after
\* a receive of its own, and the calls issued never outnumber the tokens
\* received.
TokenPerCall ==
  /\ Spawned = admit.count
  /\ SumCalls(dw) + SumCalls(fw) <= admit.count
  /\ \A w \in DOMAIN dw : dw[w].calls <= 1
  /\ \A f \in DOMAIN fw : fw[f].calls <= 1

\* both stages have drawn on the throttle: two listings and three fetches
C14Witness ==
  /\ cpc = "running"
  /\ SumCalls(dw) = 2
  /\ SumCalls(fw) = 3
  /\ admit.count = 5

\* -------------------------------------------------------------------- C15
\* C15: the tag stream is closed only after every discovery worker, successful
\* or failed, has finished, and only once: the step that closes it finds it
\* open, the counter at zero and every worker done; no worker is calling or
\* sending once it is closed; every tag set that was resolved has been received
\* by then; and the WaitGroup counter is never negative.
DiscoveryBarrier ==
  /\ [](/\ tagwait >= 0
        /\ tagsClosed =>
             /\ closer1 = "done"
             /\ \A w \in DOMAIN dw : dw[w].st = "done"
        /\ tagwait = Cardinality({ w \in DOMAIN dw : dw[w].st \in {"call", "send"} }))
  /\ [][(closer1 = "wait" /\ closer1' = "done") =>
          /\ ~tagsClosed /\ tagsClosed'
          /\ tagwait = 0
          /\ \A w \in DOMAIN dw : dw[w].st = "done"]_vars

\* a run over two repositories whose stream was closed after one listing had
\* failed and the tag set of the other had been received
C15Witness ==
  /\ cpc = "running" /\ tagsClosed
  /\ Len(dw) = 2
  /\ \E w \in DOMAIN dw : ~dw[w].ok
  /\ \E w \in DOMAIN dw : dw[w].ok /\ Len(fw) = Len(Tags(frepos[w]))

\* -------------------------------------------------------------------- C16
\* C16: the image stream is closed only after every fetch worker has finished,
\* and fetch_images returns only after that: when the stream is closed, and
\* whenever no call of fetch_images is running, no worker is calling or blocked
\* on a send; so the workers of two calls of fetch_images_older_than_n_latest
\* never run at the same time.
FetchBarrier ==
  LET quiet == /\ \A f \in DOMAIN fw : fw[f].st = "done"
               /\ \A w \in DOMAIN dw : dw[w].st = "done"
               /\ imgwait = 0 /\ tagwait = 0
  IN  /\ imgwait >= 0
      /\ imgwait = Cardinality({ f \in DOMAIN fw : fw[f].st # "done" })
      /\ imgClosed => quiet
      /\ cpc \in {"idle", "done"} => quiet
      /\ \A k \in DOMAIN hist :
           /\ \A f \in DOMAIN hist[k].fw : hist[k].fw[f].st = "done"
           /\ \A w \in DOMAIN hist[k].dw : hist[k].dw[w].st = "done"

\* the second call of a top-N run is under way with workers of its own, after
\* the first call returned with all of its workers finished
C16Witness ==
  /\ n > 0 /\ cpc = "running" /\ ri = 2
  /\ Len(hist) = 1 /\ Len(hist[1].fw) = 2
  /\ \E f \in DOMAIN fw : fw[f].st = "send"
  /\ \E f \in DOMAIN fw : fw[f].st = "call"

\* -------------------------------------------------------------------- C17
\* C17: every failure of a tag-listing call and every failure of a metadata
\* fetch inside fetch_images has its log entry: one that names the repository
\* for a listing, the line "Unable to get image" with the pair of the call for
\* a fetch; the caller gets its sequence and no error.
FailuresLogged ==
  /\ \A w \in DOMAIN dw :
       (dw[w].calls > 0 /\ dw[w].st = "done" /\ ~dw[w].ok)
          => \E e \in log : e.what # "Unable to get image" /\ e.repo = frepos[w]
  /\ \A f \in DOMAIN fw :
       (fw[f].calls > 0 /\ fw[f].st = "done" /\ ~fw[f].ok)
          => UnableToGetImage(fw[f].req, fw[f].tag) \in log

\* -------------------------------------------------------------------- C18
\* the listings of repository r that succeeded in a finished call
ListedAs(h, r) == { w \in Listed(h) : h.repos[w] = r }

\* the metadata calls of a finished call that were for r:t
CallsFor(h, r, t) == { f \in DOMAIN h.fw : h.fw[f].req = r /\ h.fw[f].tag = t }

\* C18: a run of fetch_images issues exactly one tag-listing call per element
\* of the list and exactly one metadata call per tag of every tag set that was
\* resolved, a repository listed twice being listed and fetched twice; no call
\* is repeated, and each metadata call delivers at most one image: when nothing
\* fails every image of a repository is delivered once per occurrence of the
\* repository in the list.
OneAttemptPerItem ==
  \A k \in DOMAIN hist :
    LET h == hist[k]
    IN  /\ Len(h.dw) = Len(h.repos)
        /\ \A w \in DOMAIN h.dw : h.dw[w].calls = 1
        /\ \A f \in DOMAIN h.fw : h.fw[f].calls = 1
        /\ \A w \in Listed(h) :
             \A t \in Range(Tags(h.repos[w])) :
               Cardinality(CallsFor(h, h.repos[w], t))
                 = Cardinality(ListedAs(h, h.repos[w]))
        /\ \A x \in Delivered(h) : Deliveries(h, x) <= Cardinality(CallsFor(h, x.Name, x.Tag))
        /\ NoFailure(h) =>
             \A w \in DOMAIN h.repos :
               \A x \in RegistryImages(h.repos[w]) :
                 Deliveries(h, x) = Cardinality({ v \in DOMAIN h.repos : h.repos[v] = h.repos[w] })

\* -------------------------------------------------------------------- C19
\* C19, as stated: a request with --exclude-latest 0 or negative is rejected:
\* the pipeline is not run for it and it yields no candidates and no deletion.
NonPositiveRejected ==
  n <= 0 => (hist = <<>> /\ result = <<>> /\ deleted = <<>>)

\* C19, amended: fetch_images_older_than_n_latest runs only with n >= 1, one
\* call per repository; with --exclude-latest 0 or negative nothing is rejected
\* and nothing is retained: fetch_images runs once over the whole list and
\* every image it returns is listed (and deleted, after confirmation).
NoExclusionUnlessPositive ==
  /\ n >= 1 =>
       \A k \in DOMAIN hist : k \in DOMAIN repos /\ hist[k].repos = << repos[k] >>
  /\ n <= 0 =>
       /\ Len(hist) <= 1
       /\ \A k \in DOMAIN hist : hist[k].repos = repos /\ hist[k].all = hist[k].ret
       /\ Done => (Len(hist) = 1 /\ result = hist[1].ret)
       /\ deleted # <<>> => \A j \in DOMAIN deleted : deleted[j].img = result[j]

\* --exclude-latest -1 --delete on a repository of two images: both are listed
\* and, the operator having answered y, both are deleted
C19Witness ==
  /\ n < 0 /\ cpc = "exit"
  /\ repos = <<"A">>
  /\ Range(result) = RegistryImages("A")
  /\ Len(deleted) = 2

\* -------------------------------------------------------------------- C20
\* the last line Confirm has read
LastAnswer == answers[Len(answers)]

\* C20: DeleteImage is called only with --delete and after Confirm has read a
\* line that is y once trimmed; every line before it was neither y nor n; after
\* n the command ends without a delete; the deletes are those of the listed
\* images, one each, in the listed order, and the command ends after the last
\* of them whether or not a delete failed.
ConfirmationPrecedesDeletion ==
  /\ \A j \in DOMAIN answers :
       j < Len(answers) => TrimSpace(answers[j]) \notin { <<"y">>, <<"n">> }
  /\ answers # <<>> => ("delete" \in args /\ result # <<>>)
  /\ cpc = "confirm" =>
       (answers = <<>> \/ TrimSpace(LastAnswer) \notin { <<"y">>, <<"n">> })
  /\ cpc = "delete" => (answers # <<>> /\ TrimSpace(LastAnswer) = <<"y">>)
  /\ deleted # <<>> =>
       /\ "delete" \in args
       /\ answers # <<>> /\ TrimSpace(LastAnswer) = <<"y">>
       /\ cpc \in {"delete", "exit"}
  /\ (answers # <<>> /\ TrimSpace(LastAnswer) = <<"n">>) =>
       (deleted = <<>> /\ cpc = "exit")
  /\ Len(deleted) <= Len(result)
  /\ \A j \in DOMAIN deleted : deleted[j].img = result[j]
  /\ (cpc = "exit" /\ answers # <<>> /\ TrimSpace(LastAnswer) = <<"y">>)
       => Len(deleted) = Len(result)

\* the operator typed yes, was asked again and typed y; the first delete
\* failed and the second was still made
C20Witness ==
  /\ cpc = "exit"
  /\ answers = << <<"y", "e", "s", "\n">>, <<"y", "\n">> >>
  /\ Len(deleted) = 2
  /\ ~deleted[1].ok /\ deleted[2].ok

\* -------------------------------------------------------------------- C21
\* the other images of x's repository that pass the filters in the registry
\* and were created at the same time as x or later
AtLeastAsNew(x) ==
  { y \in Survivors(x.Name) \ {x} : ~(y.Created < x.Created) }

\* C21: whatever fetches fail, with n >= 1 every image among the candidates of
\* fetch_images_older_than_n_latest is an image of the registry that passes the
\* filters and has at least n others of its repository, passing the filters,
\* that are as recent or more recent: none of the n most recently created is a
\* candidate.
RetentionUnderFailure ==
  n >= 1 =>
    /\ \A k \in DOMAIN hist :
         \A x \in Range(hist[k].all) :
           /\ x \in Survivors(x.Name)
           /\ Cardinality(AtLeastAsNew(x)) >= n
    /\ \A x \in Range(result) : Cardinality(AtLeastAsNew(x)) >= n

\* n = 1 on a repository of three images: the fetch of one of its newest
\* failed, and still only the oldest image is a candidate
C21Witness ==
  /\ Done /\ n = 1
  /\ repos = <<"T">>
  /\ \E f \in DOMAIN hist[1].fw : ~hist[1].fw[f].ok /\ hist[1].fw[f].tag # TagDev1
  /\ Len(hist[1].ret) = 2
  /\ result = << ImageDetails("T", TagDev1) >>

\* -------------------------------------------------------------------- C22
\* the images fetch_images_older_than_n_latest kept back in its k-th call
Retained(k) ==
  { hist[k].ret[j] : j \in { m \in DOMAIN hist[k].ret : m <= n } }

\* C22: no candidate has the content digest of an image that was kept back for
\* its repository, and no DeleteImage call that succeeded names the manifest of
\* an image of the list's repositories that was not a candidate.
DeletionLeavesRetained ==
  n >= 1 =>
    /\ \A k \in DOMAIN hist :
         \A x \in Range(Contribution(k)) :
           \A y \in Retained(k) : ~Deletes(x, y.Name, y.ContentDigest)
    /\ \A j \in DOMAIN deleted :
         deleted[j].ok =>
           \A k \in DOMAIN repos :
             \A y \in RegistryImages(repos[k]) \ Range(result) :
               ~Deletes(deleted[j].img, y.Name, y.ContentDigest)

====
